---- MODULE Spec2Model ----
(***************************************************************************)
(* A model of functions.py: fetch_google_results, fetch_webpage_content    *)
(* and fetch_and_combine_contents, with the search provider, the HTTP      *)
(* endpoints and the HTML parser as nondeterministic environments.         *)
(*                                                                         *)
(* Values of Optional type are wrapped: None is <<>>, a value v is <<v>>.  *)
(* A string built by the code is a sequence of its segments, so that a     *)
(* combined document can be taken apart again.                             *)
(***************************************************************************)
EXTENDS Integers, Sequences, FiniteSets, TLC

\* ---------------------------------------------------------------- bounds
MaxUrls == 3        \* longest urls list handed to fetch_and_combine_contents
MaxCount == 3       \* largest num_results handed to fetch_google_results

\* ------------------------------------------------------- program constants
NumStars == 25      \* '*'*25 in the framing line

\* ------------------------------------------------------------ input sets
Queries == {"", "q"}
Counts == (0 - 1)..MaxCount
Urls == {"", "u1", "u2"}
ResultUrls == {"u1", "u2"}
Texts == {"", "A", "B"}

None == <<>>
Some(v) == <<v>>

SeqsUpTo(S, n) == UNION {[1..k -> S] : k \in 0..n}

VARIABLES
    op,                \* the top-level call: "none" or a function name
    query, num_results, gPc, gResult, gError, searchCalls, searchStop, yielded, searchFailed,
    url, wPc, wResult, wError, requestsMade, netOutcome, parseOutcome,
    urls, idx, combined_content, cPc, cResult, cError, started, finished,
    log

gVars == <<query, num_results, gPc, gResult, gError, searchCalls, searchStop, yielded, searchFailed>>
wVars == <<url, wPc, wResult, wError, requestsMade, netOutcome, parseOutcome>>
cVars == <<urls, idx, combined_content, cPc, cResult, cError, started, finished>>
vars == <<op, gVars, wVars, cVars, log>>

\* ------------------------------------------------------------------ logging
Entry(level, msg) == [level |-> level, msg |-> msg]

\* --------------------------------------------------- document construction
RECURSIVE Repeat(_, _)
Repeat(s, n) == IF n = 0 THEN "" ELSE s \o Repeat(s, n - 1)

Stars == Repeat("*", NumStars)

\* f"\n{'*'*25}Content from: {url}{'*'*25}\n{content}\n"
Block(u, text) == <<"\n", Stars, "Content from: ", u, Stars, "\n", text, "\n">>

\* " ".join(combined_content)
RECURSIVE Join(_)
Join(blocks) ==
    IF blocks = <<>> THEN <<>>
    ELSE IF Len(blocks) = 1 THEN blocks[1]
    ELSE blocks[1] \o <<" ">> \o Join(Tail(blocks))

\* Python truthiness of an Optional[str]: None and "" are falsy
Truthy(content) == content # None /\ content[1] # ""


\* ------------------------------------------------------------------ Init
GIdle ==
    /\ query = "" /\ num_results = 0 /\ gPc = "idle" /\ gResult = None
    /\ gError = "none" /\ searchCalls = 0 /\ searchStop = 0
    /\ yielded = <<>> /\ searchFailed = FALSE

WIdle ==
    /\ url = "" /\ wPc = "idle" /\ wResult = None /\ wError = "none"
    /\ requestsMade = 0 /\ netOutcome = "none" /\ parseOutcome = "none"

CIdle ==
    /\ urls = <<>> /\ idx = 1 /\ combined_content = <<>> /\ cPc = "idle"
    /\ cResult = None /\ cError = "none" /\ started = <<>> /\ finished = <<>>

Init == op = "none" /\ GIdle /\ WIdle /\ CIdle /\ log = <<>>

\* Every call starts from fresh locals: nothing is kept between calls.
GReset ==
    /\ query' = "" /\ num_results' = 0 /\ gPc' = "idle" /\ gResult' = None
    /\ gError' = "none" /\ searchCalls' = 0 /\ searchStop' = 0
    /\ yielded' = <<>> /\ searchFailed' = FALSE

WReset ==
    /\ url' = "" /\ wPc' = "idle" /\ wResult' = None /\ wError' = "none"
    /\ requestsMade' = 0 /\ netOutcome' = "none" /\ parseOutcome' = "none"

CReset ==
    /\ urls' = <<>> /\ idx' = 1 /\ combined_content' = <<>> /\ cPc' = "idle"
    /\ cResult' = None /\ cError' = "none" /\ started' = <<>> /\ finished' = <<>>

\* A caller makes a call when no call is in progress.
Ended == {"returned", "raised"}

NoCallInProgress ==
    \/ op = "none"
    \/ op = "fetch_google_results" /\ gPc \in Ended
    \/ op = "fetch_webpage_content" /\ wPc \in Ended
    \/ op = "fetch_and_combine_contents" /\ cPc \in Ended

\* ------------------------------------------------- fetch_google_results
\* def fetch_google_results(query, num_results): the call itself
CallFetchGoogleResults ==
    /\ NoCallInProgress
    /\ \E q \in Queries, n \in Counts :
        /\ op' = "fetch_google_results"
        /\ query' = q /\ num_results' = n /\ gPc' = "validate"
        /\ gResult' = None /\ gError' = "none" /\ searchCalls' = 0
        /\ searchStop' = 0 /\ yielded' = <<>> /\ searchFailed' = FALSE
    /\ WReset /\ CReset /\ log' = <<>>

\* faulty variant: the count check lets 0 through
ValidateQuery_Off(q, n) ==
    IF q = "" THEN "query" ELSE IF n < 0 THEN "count" ELSE "ok"

\* if not query: raise ValueError; if num_results < 1: raise ValueError
ValidateQuery(q, n) ==
    IF q = "" THEN "query" ELSE IF n < 1 THEN "count" ELSE "ok"

FetchGoogleValidate ==
    /\ op = "fetch_google_results" /\ gPc = "validate"
    /\ IF ValidateQuery(query, num_results) = "ok"
         THEN gPc' = "search" /\ gError' = gError
         ELSE gPc' = "raised" /\ gError' = "ValueError"
    /\ UNCHANGED <<op, query, num_results, gResult, searchCalls, searchStop,
                   yielded, searchFailed, wVars, cVars, log>>

\* faulty variant: asks the provider for one result too many
SearchArgs_Off(q, n) == [query |-> q, num |-> n, stop |-> n + 1, pause |-> 2]

\* search(query=query, num=num_results, stop=num_results, pause=2)
SearchArgs(q, n) == [query |-> q, num |-> n, stop |-> n, pause |-> 2]

\* The provider: fails when called, fails while its results are read, or
\* yields some ranked sequence of at most `stop` URLs.
Provider(args) ==
    {[kind |-> k, urls |-> <<>>] : k \in {"fail_call", "fail_iter"}}
        \cup {[kind |-> "ok", urls |-> s] : s \in SeqsUpTo(ResultUrls, args.stop)}

\* faulty variant: the failure is swallowed and an empty list returned
SearchExcept_Swallow(lg) ==
    [pc |-> "returned", result |-> Some(<<>>), error |-> "none",
     log |-> Append(lg, Entry("ERROR", "search_error"))]

\* except Exception as e: logging.error(...); raise e
SearchExcept(lg) ==
    [pc |-> "raised", result |-> None, error |-> "SearchError",
     log |-> Append(lg, Entry("ERROR", "search_error"))]

\* try: results = search(...); logging.info(...); return list(results)
FetchGoogleSearch ==
    /\ op = "fetch_google_results" /\ gPc = "search"
    /\ LET args == SearchArgs(query, num_results)
           info == Entry("INFO", "search_ok")
       IN  /\ searchCalls' = searchCalls + 1
           /\ searchStop' = args.stop
           /\ \E out \in Provider(args) :
                /\ yielded' = out.urls
                /\ searchFailed' = (out.kind # "ok")
                /\ LET r == CASE out.kind = "fail_call" -> SearchExcept(log)
                              [] out.kind = "fail_iter" -> SearchExcept(Append(log, info))
                              [] OTHER -> [pc |-> "returned",
                                           result |-> Some(out.urls),
                                           error |-> "none",
                                           log |-> Append(log, info)]
                   IN  /\ gPc' = r.pc /\ gResult' = r.result
                       /\ gError' = r.error /\ log' = r.log
    /\ UNCHANGED <<op, query, num_results, wVars, cVars>>

\* ------------------------------------------------ fetch_webpage_content
InFetch ==
    \/ op = "fetch_webpage_content"
    \/ op = "fetch_and_combine_contents" /\ cPc = "await"

\* def fetch_webpage_content(url): a caller's direct call
CallFetchWebpageContent ==
    /\ NoCallInProgress
    /\ \E u \in Urls :
        /\ op' = "fetch_webpage_content"
        /\ url' = u /\ wPc' = "validate" /\ wResult' = None /\ wError' = "none"
        /\ requestsMade' = 0 /\ netOutcome' = "none" /\ parseOutcome' = "none"
    /\ GReset /\ CReset /\ log' = <<>>

\* faulty variant: the empty URL is turned into the None result
UrlCheck_Absent(u) ==
    IF u = "" THEN [pc |-> "returned", error |-> "none"]
    ELSE [pc |-> "get", error |-> "none"]

\* if not url: raise ValueError("The URL must be a non-empty string.")
UrlCheck(u) ==
    IF u = "" THEN [pc |-> "raised", error |-> "ValueError"]
    ELSE [pc |-> "get", error |-> "none"]

FetchWebValidate ==
    /\ InFetch /\ wPc = "validate"
    /\ LET r == UrlCheck(url) IN wPc' = r.pc /\ wError' = r.error
    /\ UNCHANGED <<op, gVars, cVars, log, url, wResult, requestsMade,
                   netOutcome, parseOutcome>>

\* What requests.get(url) followed by response.raise_for_status() can do:
\* succeed, raise a RequestException (transport), raise HTTPError (a
\* RequestException, status 4xx/5xx), or raise ValueError.
NetOutcomes == {"ok", "transport_error", "http_error", "value_error"}

\* faulty variant: the strict variant, which re-raises
GetExcept_Strict(lg, cause) ==
    [pc |-> "raised", result |-> None, error |-> cause,
     log |-> Append(lg, Entry("ERROR", "fetch_error"))]

\* except (requests.RequestException, ValueError) as e:
\*     logging.error(...); return None
GetExcept(lg, cause) ==
    [pc |-> "returned", result |-> None, error |-> "none",
     log |-> Append(lg, Entry("ERROR", "fetch_error"))]

\* try: response = requests.get(url); response.raise_for_status()
FetchWebGet ==
    /\ InFetch /\ wPc = "get"
    /\ requestsMade' = requestsMade + 1
    /\ \E net \in NetOutcomes :
        /\ netOutcome' = net
        /\ IF net = "ok"
             THEN /\ wPc' = "parse"
                  /\ log' = Append(log, Entry("INFO", "fetch_ok"))
                  /\ UNCHANGED <<wResult, wError>>
             ELSE LET r == GetExcept(log, net)
                  IN  /\ wPc' = r.pc /\ wResult' = r.result
                      /\ wError' = r.error /\ log' = r.log
    /\ UNCHANGED <<op, gVars, cVars, url, parseOutcome>>

\* What BeautifulSoup(response.text, "html.parser") followed by
\* get_text(separator=" ", strip=True) can do: raise, or give the page's text.
ParseOutcomes ==
    {[kind |-> "parse_error", text |-> ""]}
        \cup {[kind |-> "ok", text |-> t] : t \in Texts}

\* faulty variant: the strict variant, which re-raises
ParseExcept_Strict(lg) ==
    [pc |-> "raised", result |-> None, error |-> "parse_error",
     log |-> Append(lg, Entry("ERROR", "parse_error"))]

\* except Exception as e: logging.error(...); return None
ParseExcept(lg) ==
    [pc |-> "returned", result |-> None, error |-> "none",
     log |-> Append(lg, Entry("ERROR", "parse_error"))]

\* try: soup = ...; text_content = soup.get_text(...); return text_content
FetchWebParse ==
    /\ InFetch /\ wPc = "parse"
    /\ \E p \in ParseOutcomes :
        /\ parseOutcome' = p.kind
        /\ LET r == IF p.kind = "ok"
                      THEN [pc |-> "returned", result |-> Some(p.text),
                            error |-> "none",
                            log |-> Append(log, Entry("INFO", "parse_ok"))]
                      ELSE ParseExcept(log)
           IN  /\ wPc' = r.pc /\ wResult' = r.result
               /\ wError' = r.error /\ log' = r.log
    /\ UNCHANGED <<op, gVars, cVars, url, requestsMade, netOutcome>>

\* -------------------------------------------- fetch_and_combine_contents
\* def fetch_and_combine_contents(urls): combined_content = []
CallFetchAndCombineContents ==
    /\ NoCallInProgress
    /\ \E us \in SeqsUpTo(Urls, MaxUrls) :
        /\ op' = "fetch_and_combine_contents"
        /\ urls' = us /\ idx' = 1 /\ combined_content' = <<>> /\ cPc' = "loop"
        /\ cResult' = None /\ cError' = "none"
        /\ started' = <<>> /\ finished' = <<>>
    /\ GReset /\ WReset /\ log' = <<>>

\* for url in urls: content = fetch_webpage_content(url)   (the call)
AggFetch ==
    /\ op = "fetch_and_combine_contents" /\ cPc = "loop" /\ idx <= Len(urls)
    /\ url' = urls[idx] /\ wPc' = "validate" /\ wResult' = None
    /\ wError' = "none" /\ requestsMade' = 0
    /\ netOutcome' = "none" /\ parseOutcome' = "none"
    /\ started' = Append(started, idx)
    /\ cPc' = "await"
    /\ UNCHANGED <<op, gVars, urls, idx, combined_content, cResult, cError,
                   finished, log>>

\* faulty variant: every result that is not None gets a block
Collect_NotNone(cc, u, content, lg) ==
    IF content # None
        THEN [cc |-> Append(cc, Block(u, content[1])), log |-> lg]
        ELSE [cc |-> cc, log |-> Append(lg, Entry("INFO", "no_content_url"))]

\* faulty variant: a block is not added twice
Collect_Dedup(cc, u, content, lg) ==
    IF Truthy(content) /\ \A k \in 1..Len(cc) : cc[k] # Block(u, content[1])
        THEN [cc |-> Append(cc, Block(u, content[1])), log |-> lg]
        ELSE [cc |-> cc, log |-> Append(lg, Entry("INFO", "no_content_url"))]

\* if content: combined_content.append(f"...") else: logging.info(...)
Collect(cc, u, content, lg) ==
    IF Truthy(content)
        THEN [cc |-> Append(cc, Block(u, content[1])), log |-> lg]
        ELSE [cc |-> cc, log |-> Append(lg, Entry("INFO", "no_content_url"))]

\* faulty variant: the loop stops at the first URL without content
Advance_Break(i, content) == IF Truthy(content) THEN i + 1 ELSE Len(urls) + 1

\* the for loop moves to the next URL whatever the fetch returned
Advance(i, content) == i + 1

\* the fetch returned: the body of the loop
AggCollect ==
    /\ op = "fetch_and_combine_contents" /\ cPc = "await" /\ wPc = "returned"
    /\ LET r == Collect(combined_content, url, wResult, log)
       IN  combined_content' = r.cc /\ log' = r.log
    /\ finished' = Append(finished, [url |-> url, content |-> wResult])
    /\ idx' = Advance(idx, wResult)
    /\ cPc' = "loop" /\ wPc' = "idle"
    /\ UNCHANGED <<op, gVars, urls, cResult, cError, started,
                   url, wResult, wError, requestsMade, netOutcome, parseOutcome>>

\* the fetch raised: nothing in the loop catches it
AggPropagate ==
    /\ op = "fetch_and_combine_contents" /\ cPc = "await" /\ wPc = "raised"
    /\ cPc' = "raised" /\ cError' = wError
    /\ UNCHANGED <<op, gVars, wVars, urls, idx, combined_content, cResult,
                   started, finished, log>>

\* faulty variant: an empty document instead of None
Finish_EmptyDoc(cc, lg) == [result |-> Some(Join(cc)), log |-> lg]

\* if not combined_content: logging.warning(...); return None
\* return " ".join(combined_content)
Finish(cc, lg) ==
    IF cc = <<>>
        THEN [result |-> None, log |-> Append(lg, Entry("WARNING", "no_content"))]
        ELSE [result |-> Some(Join(cc)), log |-> lg]

AggFinish ==
    /\ op = "fetch_and_combine_contents" /\ cPc = "loop" /\ idx > Len(urls)
    /\ LET r == Finish(combined_content, log)
       IN  cResult' = r.result /\ log' = r.log
    /\ cPc' = "returned"
    /\ UNCHANGED <<op, gVars, wVars, urls, idx, combined_content, cError,
                   started, finished>>

\* ------------------------------------------------------------------ Spec
Next ==
    \/ CallFetchGoogleResults
    \/ FetchGoogleValidate
    \/ FetchGoogleSearch
    \/ CallFetchWebpageContent
    \/ FetchWebValidate
    \/ FetchWebGet
    \/ FetchWebParse
    \/ CallFetchAndCombineContents
    \/ AggFetch
    \/ AggCollect
    \/ AggPropagate
    \/ AggFinish

Spec == Init /\ [][Next]_vars

\* ------------------------------------------------------ reading a document
\* The (url, text) pairs of the blocks of a combined document.
RECURSIVE ParseBlocks(_)
ParseBlocks(doc) ==
    IF Len(doc) < 8 THEN <<>>
    ELSE <<[url |-> doc[4], text |-> doc[7]]>>
            \o ParseBlocks(SubSeq(doc, 10, Len(doc)))

\* Every block has the framing line, and blocks are separated by one space.
WellFramed(doc) ==
    /\ (Len(doc) + 1) % 9 = 0
    /\ \A b \in 0..((Len(doc) + 1) \div 9 - 1) :
        LET o == 9 * b
        IN  /\ doc[o + 1] = "\n" /\ doc[o + 2] = Stars
            /\ doc[o + 3] = "Content from: " /\ doc[o + 5] = Stars
            /\ doc[o + 6] = "\n" /\ doc[o + 8] = "\n"
            /\ (o + 9 <= Len(doc) => doc[o + 9] = " ")

AsBlocks(es) ==
    [k \in 1..Len(es) |-> [url |-> es[k].url, text |-> es[k].content[1]]]

InAgg == op = "fetch_and_combine_contents"
ReturnedDoc == InAgg /\ cPc = "returned" /\ cResult # None
Warned == \E k \in 1..Len(log) : log[k] = Entry("WARNING", "no_content")
FinishedOfInput ==
    /\ Len(finished) = Len(urls)
    /\ \A k \in 1..Len(finished) : finished[k].url = urls[k]

\* ------------------------------------------------------------------ C1
\* C1 as stated: a returned document holds, in input order, exactly one
\* framed block per fetch whose result was not None.
C1_AsStated ==
    ReturnedDoc =>
        /\ FinishedOfInput
        /\ WellFramed(cResult[1])
        /\ ParseBlocks(cResult[1])
             = AsBlocks(SelectSeq(finished, LAMBDA e : e.content # None))

\* C1 amended: a returned document holds, in input order, exactly one framed
\* block per fetch whose result was a non-empty text (neither None nor ""),
\* one block per occurrence of a repeated URL.
C1_Blocks ==
    ReturnedDoc =>
        /\ FinishedOfInput
        /\ WellFramed(cResult[1])
        /\ ParseBlocks(cResult[1])
             = AsBlocks(SelectSeq(finished, LAMBDA e : Truthy(e.content)))

\* a repeated URL fetched twice with the same text, and a failed fetch
C1_Witness ==
    /\ ReturnedDoc
    /\ \E i, j, k \in 1..Len(finished) :
        /\ i < j /\ finished[i] = finished[j] /\ Truthy(finished[i].content)
        /\ finished[k].content = None

\* ------------------------------------------------------------------ C2
\* C2 as stated: fetch_and_combine_contents never ends in a raised error.
C2_AsStated == ~(InAgg /\ cPc = "raised")

\* progress measure of one fetch_and_combine_contents call
Variant ==
    IF cPc \in Ended THEN 0
    ELSE 6 * (Len(urls) + 1 - idx)
           + (CASE cPc = "loop" -> 5
                [] wPc = "validate" -> 4
                [] wPc = "get" -> 3
                [] wPc = "parse" -> 2
                [] OTHER -> 1)

AggStep == AggFetch \/ FetchWebValidate \/ FetchWebGet \/ FetchWebParse
              \/ AggCollect \/ AggPropagate \/ AggFinish

C2_Outcome ==
    InAgg =>
        /\ Variant >= 0
        /\ (cPc \notin Ended => ENABLED AggStep)
        /\ (cPc = "raised" =>
                /\ idx <= Len(urls) /\ urls[idx] = ""
                /\ cError = "ValueError" /\ cResult = None)
        /\ ((\A k \in 1..Len(urls) : urls[k] # "") => cPc # "raised")

\* C2 amended: every call terminates (each step of a call in progress lowers
\* a natural-number measure and a step is always possible); it ends by
\* returning a document or None when no URL is the empty string, also when
\* every fetch fails, and by raising ValueError when it reaches an
\* empty-string URL.
C2_Terminates ==
    /\ []C2_Outcome
    /\ [][(InAgg /\ cPc \notin Ended) => (InAgg' /\ Variant' < Variant)]_vars

\* every fetch failed and the call returned None
C2_Witness ==
    /\ InAgg /\ cPc = "returned" /\ cResult = None /\ Len(urls) >= 2
    /\ \A k \in 1..Len(finished) : finished[k].content = None

\* ------------------------------------------------------------------ C3
\* C3 as stated: a call returns None iff it collected zero blocks, logs the
\* warning on exactly those calls, and returns a document whenever it
\* collected a block.
C3_AsStated ==
    (InAgg /\ cPc \in Ended) =>
        /\ ((cPc = "returned" /\ cResult = None) <=> combined_content = <<>>)
        /\ (Warned <=> combined_content = <<>>)
        /\ (combined_content # <<>> => cPc = "returned" /\ cResult # None)

\* C3 amended: a call that returns (no URL was the empty string) returns None
\* iff it collected zero blocks, and a document otherwise; the warning is
\* logged on exactly the calls that return None.
C3_NoneIffNoBlocks ==
    InAgg =>
        /\ (cPc = "returned" =>
                /\ (cResult = None <=> combined_content = <<>>)
                /\ (cResult # None => cResult[1] = Join(combined_content)))
        /\ (Warned <=> (cPc = "returned" /\ cResult = None))

\* all fetches of a non-empty list gave nothing: None and the warning
C3_Witness ==
    /\ InAgg /\ cPc = "returned" /\ cResult = None /\ Warned
    /\ Len(urls) >= 1 /\ Len(finished) = Len(urls)

\* ------------------------------------------------------------------ C4
\* C4 as stated: in a returned document every fetch that returned a text,
\* the empty text included, has a block with that text.
C4_AsStated ==
    ReturnedDoc =>
        \A k \in 1..Len(finished) :
            finished[k].content # None =>
                \E b \in 1..Len(ParseBlocks(cResult[1])) :
                    ParseBlocks(cResult[1])[b]
                        = [url |-> finished[k].url, text |-> finished[k].content[1]]

\* C4 amended: in a returned document every fetch that returned a non-empty
\* text has a block with that whole text; a page whose text is the empty
\* string has none.
C4_NonEmptyIncluded ==
    ReturnedDoc =>
        /\ \A k \in 1..Len(finished) :
            Truthy(finished[k].content) =>
                \E b \in 1..Len(ParseBlocks(cResult[1])) :
                    ParseBlocks(cResult[1])[b]
                        = [url |-> finished[k].url, text |-> finished[k].content[1]]
        /\ Len(ParseBlocks(cResult[1]))
             = Cardinality({k \in 1..Len(finished) : Truthy(finished[k].content)})

\* a page with text next to a page whose text is empty
C4_Witness ==
    /\ ReturnedDoc
    /\ \E i, j \in 1..Len(finished) :
        /\ finished[i].content = Some("") /\ Truthy(finished[j].content)

\* ------------------------------------------------------------------ C5
InGoogle == op = "fetch_google_results"

\* C5: with an empty query or a count below 1 the call raises ValueError and
\* the search provider is never invoked.
C5_InvalidArgument ==
    (InGoogle /\ (query = "" \/ num_results < 1)) =>
        /\ searchCalls = 0
        /\ gPc \in {"validate", "raised"}
        /\ (gPc = "raised" => gError = "ValueError" /\ gResult = None)

\* a valid query with count 0 was rejected
C5_Witness ==
    InGoogle /\ query # "" /\ num_results = 0 /\ gPc = "raised"

C7_ProviderError ==
    /\ (InGoogle => searchCalls <= 1)
    /\ (InGoogle /\ searchFailed) =>
        /\ gPc = "raised" /\ gError = "SearchError" /\ gResult = None
        /\ searchCalls = 1
        /\ \E k \in 1..Len(log) : log[k].level = "ERROR"

\* the provider failed while its results were being read
C7_Witness ==
    /\ InGoogle /\ searchFailed /\ gPc = "raised"
    /\ \E k \in 1..Len(log) : log[k] = Entry("INFO", "search_ok")

\* ------------------------------------------------------------------ C8
\* C8: for a non-empty URL fetch_webpage_content never raises; a transport
\* error, a bad status and a parse error each give None and a logged error,
\* only a successful request and parse give text; at most one request.
C8_Lenient ==
    (wPc # "idle" /\ url # "") =>
        /\ wPc # "raised"
        /\ requestsMade <= 1
        /\ (wPc = "returned" =>
              /\ requestsMade = 1
              /\ (wResult # None <=> (netOutcome = "ok" /\ parseOutcome = "ok"))
              /\ (wResult = None => log[Len(log)].level = "ERROR"))

\* a page answered with a bad status
C8_Witness ==
    /\ wPc = "returned" /\ url # "" /\ netOutcome = "http_error"
    /\ wResult = None

\* ------------------------------------------------------------------ C9
\* C9: with an empty URL fetch_webpage_content raises ValueError, does not
\* return None, and makes no request.
C9_EmptyUrl ==
    (wPc # "idle" /\ url = "") =>
        /\ requestsMade = 0
        /\ wPc \in {"validate", "raised"}
        /\ (wPc = "raised" => wError = "ValueError" /\ wResult = None)

\* a direct call with the empty URL raised
C9_Witness ==
    op = "fetch_webpage_content" /\ url = "" /\ wPc = "raised"

\* ------------------------------------------------------------------ C10
\* the fetches are made one at a time, in input order
Sequential ==
    /\ \A k \in 1..Len(started) : started[k] = k
    /\ Len(started) <= Len(urls)
    /\ Len(finished) <= Len(started) /\ Len(started) <= Len(finished) + 1
    /\ (Len(started) = Len(finished) + 1 <=> cPc \in {"await", "raised"})
    /\ (wPc \in {"validate", "get", "parse"} =>
            cPc = "await" /\ url = urls[Len(started)])
    /\ \A k \in 1..Len(finished) : finished[k].url = urls[k]

\* C10 as stated: by the end of a call every position of the input has been
\* fetched exactly once, one at a time and in input order.
C10_AsStated ==
    InAgg =>
        /\ Sequential
        /\ (cPc \in Ended => Len(started) = Len(urls))

\* C10 amended: the fetches are made one at a time and in input order, one
\* for each position up to and including the first empty-string URL, and for
\* every position when no URL is empty; a fetch that returns None never
\* prevents the later fetches, a fetch of the empty string ends the call.
C10_Sequential ==
    InAgg =>
        /\ Sequential
        /\ (cPc = "returned" => Len(started) = Len(urls))
        /\ (cPc = "raised" =>
                /\ urls[Len(started)] = ""
                /\ \A k \in 1..(Len(started) - 1) : urls[k] # "")

\* a failed fetch followed by a successful one
C10_Witness ==
    /\ InAgg /\ cPc = "returned" /\ Len(finished) >= 2
    /\ finished[1].content = None /\ finished[2].content # None
====
